---- MODULE Spec2Model ----
(***************************************************************************)
(* A model of generate_pdf.py: the amount arithmetic of                    *)
(* EstimatePDFGenerator (calculate_item_total, calculate_totals), the      *)
(* value set generate_pdf hands to its template, and the batch loop of     *)
(* main with select_template.                                              *)
(*                                                                         *)
(* Text is a sequence of one-character strings.  A JSON value is a record  *)
(* [k, n, s]: k is "absent" (the key is not in the dict), "null", "int"    *)
(* (value n) or "str" (text s).                                            *)
(***************************************************************************)
EXTENDS Integers, Sequences, FiniteSets, TLC

VARIABLES
    pc,                 \* where the modelled call or run stands
    item,               \* the dict handed to calculate_item_total
    result,             \* what calculate_item_total returned
    data,               \* the loaded JSON record: tax, items and the overrides
    entry,              \* the record's items as they were loaded
    items,              \* the same list, mutated in place by calculate_totals
    tax_rate,           \* the float handed to calculate_totals
    calculated,         \* what calculate_totals returned
    template_data,      \* the value set handed to template.render
    fs,                 \* the template/ and data/ directories
    selected_template,  \* what select_template returned
    todo,               \* the iterations of main's loops still to run, in order
    attempts,           \* the generate_pdf calls made so far, in order
    written,            \* the PDFs written so far: path and the call that wrote it
    failures,           \* the calls whose exception main caught
    templates           \* the generator's cache of loaded templates

vars == <<pc, item, result, data, entry, items, tax_rate, calculated,
          template_data, fs, selected_template, todo, attempts, written,
          failures, templates>>

(***************************************************************************)
(* JSON values and Python's str(), truthiness and int().                   *)
(***************************************************************************)
Absent == [k |-> "absent", n |-> 0, s |-> <<>>]

Null == [k |-> "null", n |-> 0, s |-> <<>>]

IntV(n) == [k |-> "int", n |-> n, s |-> <<>>]

StrV(s) == [k |-> "str", n |-> 0, s |-> s]

Digits == <<"0", "1", "2", "3", "4", "5", "6", "7", "8", "9">>

DigitChars == {Digits[i] : i \in 1..10}

DigitVal(c) == (CHOOSE i \in 1..10 : Digits[i] = c) - 1

RECURSIVE NatStr(_)
\* The decimal digits of a natural number, as str() prints them.
NatStr(n) ==
    IF n < 10 THEN <<Digits[n + 1]>>
    ELSE Append(NatStr(n \div 10), Digits[(n % 10) + 1])

\* str(v) of a JSON value: text is itself, an int its decimal digits with a
\* leading '-' when negative, None the text "None".
PyStr(v) ==
    CASE v.k = "str" -> v.s
      [] v.k = "int" -> IF v.n < 0 THEN <<"-">> \o NatStr(-v.n) ELSE NatStr(v.n)
      [] OTHER -> <<"N", "o", "n", "e">>

\* Python truthiness of a JSON value: None, 0 and "" are false.
Truthy(v) ==
    CASE v.k = "str" -> v.s /= <<>>
      [] v.k = "int" -> v.n /= 0
      [] OTHER -> FALSE

RECURSIVE Replace(_, _)
\* s.replace(c, ''): every occurrence of the character removed.
Replace(s, c) ==
    IF s = <<>> THEN <<>>
    ELSE IF Head(s) = c THEN Replace(Tail(s), c)
    ELSE <<Head(s)>> \o Replace(Tail(s), c)

RECURSIVE LStrip(_)
LStrip(s) == IF s /= <<>> /\ Head(s) = " " THEN LStrip(Tail(s)) ELSE s

RECURSIVE RStrip(_)
RStrip(s) ==
    IF s /= <<>> /\ s[Len(s)] = " " THEN RStrip(SubSeq(s, 1, Len(s) - 1)) ELSE s

\* The digits-and-underscores body int() accepts: it starts and ends with a
\* digit and an underscore stands only between two digits.
IntBody(b) ==
    /\ b /= <<>>
    /\ \A i \in 1..Len(b) : b[i] \in DigitChars \/ b[i] = "_"
    /\ b[1] \in DigitChars
    /\ b[Len(b)] \in DigitChars
    /\ \A i \in 1..(Len(b) - 1) : ~(b[i] = "_" /\ b[i + 1] = "_")

RECURSIVE DigitsVal(_, _)
\* The value of a body of digits (underscores skipped), most significant first.
DigitsVal(b, acc) ==
    IF b = <<>> THEN acc
    ELSE IF Head(b) = "_" THEN DigitsVal(Tail(b), acc)
    ELSE DigitsVal(Tail(b), 10 * acc + DigitVal(Head(b)))

\* int(s) for text s: surrounding blanks stripped, one optional sign, then the
\* body; [ok |-> FALSE] stands for ValueError.
PyInt(s) ==
    LET t == RStrip(LStrip(s))
        signed == t /= <<>> /\ Head(t) \in {"-", "+"}
        b == IF signed THEN Tail(t) ELSE t
    IN  IF IntBody(b)
        THEN [ok |-> TRUE,
              v |-> IF signed /\ Head(t) = "-" THEN -DigitsVal(b, 0)
                    ELSE DigitsVal(b, 0)]
        ELSE [ok |-> FALSE, v |-> 0]

RECURSIVE Group(_)
\* Digits grouped in threes from the right with ','.
Group(d) ==
    IF Len(d) <= 3 THEN d
    ELSE Group(SubSeq(d, 1, Len(d) - 3)) \o <<",">> \o SubSeq(d, Len(d) - 2, Len(d))

\* f"{n}": the rendering without the ',' option.
FormatPlain(n) == IF n < 0 THEN <<"-">> \o NatStr(-n) ELSE NatStr(n)

\* f"{n:,}".
FormatComma(n) ==
    IF n < 0 THEN <<"-">> \o Group(NatStr(-n)) ELSE Group(NatStr(n))

(***************************************************************************)
(* Python floats: IEEE-754 binary64, round to nearest, ties to even.  A    *)
(* float is [neg, m, e]: the magnitude is the binary number m (a sequence  *)
(* of bits, most significant first, at most MantBits of them, <<>> for     *)
(* zero) times 2^e.  Integers stay below 2^20 in magnitude, so that every  *)
(* intermediate product fits a 32-bit integer.                           *)
(***************************************************************************)
MantBits == 53

Pow2Table ==
    <<1, 2, 4, 8, 16, 32,
      64, 128, 256, 512, 1024, 2048,
      4096, 8192, 16384, 32768, 65536, 131072,
      262144, 524288, 1048576, 2097152, 4194304, 8388608,
      16777216, 33554432, 67108864, 134217728, 268435456, 536870912,
      1073741824>>

\* 2^k for k in 0..30.
Pow2(k) == Pow2Table[k + 1]

RECURSIVE PowMod(_, _)
\* 2^k modulo d.
PowMod(k, d) ==
    IF k = 0 THEN 1 % d
    ELSE IF k % 2 = 0 THEN LET h == PowMod(k \div 2, d) IN (h * h) % d
    ELSE (2 * PowMod(k - 1, d)) % d

\* The w-bit binary numeral of v < 2^w, most significant bit first.
Bits(v, w) == [j \in 1..w |-> (v \div Pow2(w - j)) % 2]

\* The binary numeral of a natural number without leading zeros.
NatBits(n) ==
    Bits(n, CHOOSE w \in 0..30 : n < Pow2(w) /\ (w = 0 \/ Pow2(w - 1) <= n))

RECURSIVE BitsNat(_)
\* The number a binary numeral (below 2^30) stands for.
BitsNat(b) ==
    IF Len(b) = 0 THEN 0
    ELSE IF Len(b) = 1 THEN b[1]
    ELSE LET h == Len(b) \div 2
         IN  BitsNat(SubSeq(b, 1, h)) * Pow2(Len(b) - h)
             + BitsNat(SubSeq(b, h + 1, Len(b)))

\* b without its leading zeros.
StripZeros(b) ==
    LET ones == {i \in 1..Len(b) : b[i] = 1}
    IN  IF ones = {} THEN <<>>
        ELSE SubSeq(b, CHOOSE i \in ones : \A k \in ones : i <= k, Len(b))

\* The bits of b + 1 (one bit longer when b is all ones): the last zero
\* becomes one and the ones after it zero.
Inc(b) ==
    LET n == Len(b)
        ones == CHOOSE t \in 0..n :
                    /\ \A i \in (n - t + 1)..n : b[i] = 1
                    /\ t = n \/ b[n - t] = 0
        j == n - ones
    IN  IF j = 0 THEN <<1>> \o [i \in 1..n |-> 0]
        ELSE [i \in 1..n |-> IF i < j THEN b[i] ELSE IF i = j THEN 1 ELSE 0]

\* The float nearest to (b + a fraction that is nonzero iff sticky) * 2^e,
\* where b has no leading zero.
RoundFloat(neg, b, sticky, e) ==
    IF Len(b) <= MantBits THEN [neg |-> neg, m |-> b, e |-> e]
    ELSE LET d == Len(b) - MantBits
             keep == SubSeq(b, 1, MantBits)
             guard == b[MantBits + 1]
             rest == sticky \/ \E i \in (MantBits + 2)..Len(b) : b[i] = 1
             up == guard = 1 /\ (rest \/ keep[MantBits] = 1)
             r == IF up THEN Inc(keep) ELSE keep
         IN  IF Len(r) > MantBits
             THEN [neg |-> neg, m |-> SubSeq(r, 1, MantBits), e |-> e + d + 1]
             ELSE [neg |-> neg, m |-> r, e |-> e + d]

\* The first n binary digits of the fraction r / d (0 <= r < d < 2^15), by
\* long division: the remainder before digit i is r * 2^(i-1) modulo d.
FracBits(r, d, n) ==
    [i \in 1..n |-> (2 * ((r * PowMod(i - 1, d)) % d)) \div d]

\* The remainder long division leaves after n digits.
FracRem(r, d, n) == (r * PowMod(n, d)) % d

\* How many zeros the binary fraction r / d (0 < r < d) starts with.
LeadingZeros(r, d) == CHOOSE z \in 0..30 : d <= r * Pow2(z + 1) /\ r * Pow2(z) < d

\* a / d for integers a and d > 0 (Python's true division, correctly rounded).
TrueDiv(a, d) ==
    LET mag == IF a < 0 THEN -a ELSE a
        whole == NatBits(mag \div d)
        r == mag % d
        n == IF Len(whole) = 0 THEN LeadingZeros(r, d) + MantBits + 1
             ELSE MantBits + 1 - Len(whole)
    IN  IF r = 0 THEN [neg |-> a < 0, m |-> whole, e |-> 0]
        ELSE RoundFloat(a < 0, StripZeros(whole \o FracBits(r, d, n)),
                        FracRem(r, d, n) /= 0, -n)

RECURSIVE MulLimbs(_, _, _)
\* m * x + carry for a natural number x < 2^20, ten bits of m at a time from
\* the low end: the low Len(m) bits and what is carried out of them.
MulLimbs(m, x, carry) ==
    IF Len(m) <= 10
    THEN LET p == BitsNat(m) * x + carry
         IN  [low |-> Bits(p % Pow2(Len(m)), Len(m)), carry |-> p \div Pow2(Len(m))]
    ELSE LET lo == MulLimbs(SubSeq(m, Len(m) - 9, Len(m)), x, carry)
             hi == MulLimbs(SubSeq(m, 1, Len(m) - 10), x, lo.carry)
         IN  [low |-> hi.low \o lo.low, carry |-> hi.carry]

\* The bits of m * x.
MulBits(m, x) ==
    LET p == MulLimbs(m, x, 0) IN NatBits(p.carry) \o p.low

\* x * f for an int x and a float f: the exact product, rounded once.
MulIntFloat(x, f) ==
    IF x = 0 \/ Len(f.m) = 0 THEN [neg |-> (x < 0) /= f.neg, m |-> <<>>, e |-> 0]
    ELSE RoundFloat((x < 0) /= f.neg,
                    StripZeros(MulBits(f.m, IF x < 0 THEN -x ELSE x)),
                    FALSE, f.e)

\* int(f): the fraction is dropped (truncation toward zero).
IntOfFloat(f) ==
    LET k == Len(f.m) + f.e
        mag == IF Len(f.m) = 0 \/ k <= 0 THEN 0
               ELSE IF f.e >= 0 THEN BitsNat(f.m) * Pow2(f.e)
               ELSE BitsNat(SubSeq(f.m, 1, k))
    IN  IF f.neg THEN -mag ELSE mag

(***************************************************************************)
(* EstimatePDFGenerator.calculate_item_total and calculate_totals.  An     *)
(* item is a record of JSON values: quantity, price, total, tax_amount and *)
(* total_str (its name takes no part in any amount).                       *)
(***************************************************************************)
\* dict.get as it would be if written `d.get(key) or default`.
DictGetOr(v, default) == IF Truthy(v) THEN v ELSE default

\* dict.get(key, default): the default only when the key is absent.
DictGet(v, default) == IF v.k = "absent" THEN default ELSE v

Zero == <<"0">>

\* calculate_item_total as it would be with the separators left in the price.
calculate_item_total_unstripped(it) ==
    LET quantity == PyInt(PyStr(DictGet(it.quantity, IntV(0))))
        price == PyInt(PyStr(DictGet(it.price, StrV(Zero))))
    IN  IF quantity.ok /\ price.ok THEN FormatComma(quantity.v * price.v)
        ELSE Zero

calculate_item_total(it) ==
    LET quantity == PyInt(PyStr(DictGet(it.quantity, IntV(0))))
        price == PyInt(Replace(PyStr(DictGet(it.price, StrV(Zero))), ","))
    IN  IF quantity.ok /\ price.ok THEN FormatComma(quantity.v * price.v)
        ELSE Zero

\* Lines 73-74: a total that is absent or falsy is computed and stored.
FillTotal(it) ==
    IF it.total.k = "absent" \/ ~Truthy(it.total)
    THEN [it EXCEPT !.total = StrV(calculate_item_total(it))]
    ELSE it

\* Lines 77-79: the item's total, separators removed, as an int.
ParseTotal(it) == PyInt(Replace(PyStr(DictGet(it.total, StrV(Zero))), ","))

\* Line 83: int(item_total * tax_rate).
TaxOf(amount, rate) == IntOfFloat(MulIntFloat(amount, rate))

\* SetTax as it would be without line 88: no tax_amount for such an item.
SetTaxNoFallback(it, total, item_tax) ==
    IF total.ok THEN [it EXCEPT !.tax_amount = StrV(FormatComma(item_tax))]
    ELSE it

\* Lines 84 and 88: the item's tax_amount, "0" when its total did not parse.
SetTax(it, total, item_tax) ==
    IF total.ok THEN [it EXCEPT !.tax_amount = StrV(FormatComma(item_tax))]
    ELSE [it EXCEPT !.tax_amount = StrV(Zero)]

\* Lines 91-94: int(str(quantity)), a missing quantity being 0.
ParseQuantity(it) == PyInt(PyStr(DictGet(it.quantity, IntV(0))))

\* Lines 71-94, one pass of the loop for the item at position i.
LoopBody(acc, i, rate) ==
    LET filled == FillTotal(acc.items[i])
        total == ParseTotal(filled)
        item_tax == IF total.ok THEN TaxOf(total.v, rate) ELSE 0
        quantity == ParseQuantity(filled)
    IN  [items |-> [acc.items EXCEPT ![i] = SetTax(filled, total, item_tax)],
         supply_price |-> acc.supply_price + (IF total.ok THEN total.v ELSE 0),
         total_tax |-> acc.total_tax + item_tax,
         total_quantity |->
             acc.total_quantity + (IF quantity.ok THEN quantity.v ELSE 0)]

RECURSIVE TotalsLoopAbort(_, _, _)
\* The loop as it would run if a quantity that does not parse ended it.
TotalsLoopAbort(acc, i, rate) ==
    IF i > Len(acc.items) THEN acc
    ELSE IF ~ParseQuantity(acc.items[i]).ok THEN LoopBody(acc, i, rate)
    ELSE TotalsLoopAbort(LoopBody(acc, i, rate), i + 1, rate)

RECURSIVE TotalsLoop(_, _, _)
\* Lines 71-94: the loop from position i on.
TotalsLoop(acc, i, rate) ==
    IF i > Len(acc.items) THEN acc
    ELSE TotalsLoop(LoopBody(acc, i, rate), i + 1, rate)

\* calculate_totals(items, tax_rate): the list as the call leaves it, and the
\* dict it returns.
calculate_totals(its, rate) ==
    LET acc == TotalsLoop([items |-> its, supply_price |-> 0, total_tax |-> 0,
                           total_quantity |-> 0], 1, rate)
        tax_amount == TaxOf(acc.supply_price, rate)
        total_amount == acc.supply_price + tax_amount
    IN  [items |-> acc.items,
         ret |-> [supply_price |-> FormatComma(acc.supply_price),
                  tax_amount |-> FormatComma(tax_amount),
                  total_tax_amount |-> FormatComma(acc.total_tax),
                  total_amount |-> FormatComma(total_amount),
                  total_quantity |-> acc.total_quantity]]

(***************************************************************************)
(* Inputs.  Text values are every text of at most MaxLen characters over   *)
(* Alphabet, and the longer texts of LongTexts.                            *)
(***************************************************************************)
MaxLen == 2

Alphabet == {"1", "0", ",", "-", "a"}

RECURSIVE TextsUpTo(_)
TextsUpTo(n) ==
    IF n = 0 THEN {<<>>}
    ELSE LET shorter == TextsUpTo(n - 1)
         IN  shorter \cup {Append(t, c) : t \in shorter, c \in Alphabet}

LongTexts ==
    { <<"5", "0", "0">>,
      <<"1", "0", "0", "0">>,
      <<"1", ",", "0", "0", "0">>,
      <<"2", ",", "5", "0", "0">>,
      <<"-", "1", ",", "5", "0", "0">>,
      <<"1", ",", "0", ",", "0">>,
      <<" ", "3", " ">>,
      <<"+", "3">>,
      <<"1", "_", "0", "0", "0">>,
      <<"o", "o", "p", "s">> }

TextInputs == {StrV(t) : t \in TextsUpTo(MaxLen) \cup LongTexts}

IntInputs == {IntV(n) : n \in {0, 3, 1000, -2}}

ValueInputs == {Absent, Null} \cup IntInputs \cup TextInputs

NewItem(q, p, t) ==
    [quantity |-> q, price |-> p, total |-> t, tax_amount |-> Absent,
     total_str |-> Absent]

Unused == <<>>

(***************************************************************************)
(* SpecItem: calculate_item_total applied to one item.                     *)
(***************************************************************************)
InitItem ==
    /\ pc = "input"
    /\ item \in {NewItem(q, p, Absent) : q \in ValueInputs, p \in ValueInputs}
    /\ result = <<>>
    /\ data = Unused /\ entry = Unused /\ items = Unused /\ tax_rate = Unused
    /\ calculated = Unused /\ template_data = Unused /\ fs = Unused
    /\ selected_template = Unused /\ todo = Unused /\ attempts = Unused
    /\ written = Unused /\ failures = Unused /\ templates = Unused

CallItemTotal ==
    /\ pc = "input"
    /\ result' = calculate_item_total(item)
    /\ pc' = "returned"
    /\ UNCHANGED <<item, data, entry, items, tax_rate, calculated, template_data,
                   fs, selected_template, todo, attempts, written, failures,
                   templates>>

NextItem == CallItemTotal

SpecItem == InitItem /\ [][NextItem]_vars

(***************************************************************************)
(* SpecTotals: calculate_totals applied to a list of at most MaxItems      *)
(* items with the rate generate_pdf derives from the record's tax.         *)
(***************************************************************************)
MaxItems == 2

QuantityPool == {Absent, IntV(2), StrV(<<"a">>)}

PricePool == {StrV(<<"1", ",", "0", "0", "0">>), StrV(<<"o", "o", "p", "s">>)}

\* Items with no total or an empty one, one item with the total 0, and items
\* with a supplied total: unparseable text, plain text and a negative int.
ItemPool ==
    {NewItem(q, p, t) : q \in QuantityPool, p \in PricePool,
                        t \in {Absent, StrV(<<>>)}}
    \cup {NewItem(IntV(2), StrV(<<"1", ",", "0", "0", "0">>), IntV(0))}
    \cup {NewItem(q, StrV(<<"1", ",", "0", "0", "0">>), t) :
             q \in QuantityPool,
             t \in {StrV(<<"a">>), StrV(<<"1", "0", "0">>), IntV(-15)}}

RECURSIVE ListsUpTo(_, _)
ListsUpTo(S, n) ==
    IF n = 0 THEN {<<>>}
    ELSE LET shorter == ListsUpTo(S, n - 1)
         IN  shorter \cup {Append(l, x) : l \in shorter, x \in S}

TaxPercents == {10, 29}

NoOverrides(tax) ==
    [tax |-> tax, supply_price |-> Absent, tax_amount |-> Absent,
     total_amount |-> Absent]

InitTotals ==
    /\ pc = "input"
    /\ \E t \in TaxPercents :
          /\ data = NoOverrides(IntV(t))
          /\ tax_rate = TrueDiv(t, 100)
    /\ entry \in ListsUpTo(ItemPool, MaxItems)
    /\ items = entry
    /\ calculated = Unused
    /\ item = Unused /\ result = Unused /\ template_data = Unused /\ fs = Unused
    /\ selected_template = Unused /\ todo = Unused /\ attempts = Unused
    /\ written = Unused /\ failures = Unused /\ templates = Unused

CallTotals ==
    /\ pc = "input"
    /\ LET call == calculate_totals(items, tax_rate)
       IN  items' = call.items /\ calculated' = call.ret
    /\ pc' = "returned"
    /\ UNCHANGED <<item, result, data, entry, tax_rate, template_data, fs,
                   selected_template, todo, attempts, written, failures,
                   templates>>

NextTotals == CallTotals

SpecTotals == InitTotals /\ [][NextTotals]_vars

(***************************************************************************)
(* SpecPdf: lines 137-182 of generate_pdf, from the loaded record to the   *)
(* value set handed to the template.  The record's parties, number and     *)
(* date are plain text the method copies and are left out.                 *)
(***************************************************************************)
\* Line 143: the record's tax, an int, none, or text (which `/` rejects).
TaxPool == {Absent, IntV(29), StrV(<<"1", "0">>)}

\* Lines 145-147: no override, separated text, a raw int, or null.
OverridePool == {Absent, StrV(<<"9", ",", "9", "9", "9">>), IntV(2000), Null}

\* Items whose total is computed, supplied as a raw int, supplied as
\* unseparated text, supplied as text that is no amount, and one that
\* arrives with the total 0 and a total_str.
PdfItemPool ==
    {NewItem(IntV(2), StrV(<<"1", ",", "0", "0", "0">>), Absent),
     NewItem(IntV(2), IntV(1000), IntV(2000)),
     NewItem(StrV(<<"3">>), StrV(<<"1", "0", "0", "0">>),
             StrV(<<"3", "0", "0", "0">>)),
     NewItem(IntV(2), StrV(<<"1", ",", "0", "0", "0">>), StrV(<<"a">>)),
     [NewItem(IntV(2), StrV(<<"1", ",", "0", "0", "0">>), IntV(0))
         EXCEPT !.total_str = StrV(<<"x">>)]}

\* Lines 150-152: total_str added to an item that has none.
AddTotalStr(it) ==
    IF it.total_str.k = "absent"
    THEN [it EXCEPT !.total_str = DictGet(it.total, StrV(Zero))]
    ELSE it

\* generate_items_html(items): per item the quantity, price and total cells
\* of its row, '' for a missing field.
generate_items_html(its) ==
    [i \in 1..Len(its) |->
        [quantity |-> PyStr(DictGet(its[i].quantity, StrV(<<>>))),
         price |-> PyStr(DictGet(its[i].price, StrV(<<>>))),
         total |-> PyStr(DictGet(its[i].total, StrV(<<>>)))]]

\* Lines 154-182: the amounts of template_data.
TemplateData(d, its, calc) ==
    LET supply_price == DictGet(d.supply_price, StrV(calc.supply_price))
        tax_amount == DictGet(d.tax_amount, StrV(calc.tax_amount))
        total_amount == DictGet(d.total_amount, StrV(calc.total_amount))
    IN  [tax |-> DictGet(d.tax, IntV(10)),
         total_amount |-> total_amount,
         supply_price |-> supply_price,
         tax_amount |-> tax_amount,
         total_tax_amount |-> StrV(calc.total_tax_amount),
         total_quantity |-> IntV(calc.total_quantity),
         subtotal_str |-> supply_price,
         tax_amount_str |-> tax_amount,
         grand_total_str |-> total_amount,
         items_rows |-> generate_items_html(its),
         items |-> its]

InitPdf ==
    /\ pc = "loaded"
    /\ data \in [tax : TaxPool, supply_price : OverridePool,
                 tax_amount : OverridePool, total_amount : OverridePool]
    /\ entry \in ListsUpTo(PdfItemPool, MaxItems)
    /\ items = entry
    /\ tax_rate = Unused /\ calculated = Unused /\ template_data = Unused
    /\ item = Unused /\ result = Unused /\ fs = Unused
    /\ selected_template = Unused /\ todo = Unused /\ attempts = Unused
    /\ written = Unused /\ failures = Unused /\ templates = Unused

\* Line 143 raises TypeError when the record's tax is text or null.
TaxRaises ==
    /\ pc = "loaded"
    /\ DictGet(data.tax, IntV(10)).k /= "int"
    /\ pc' = "raised"
    /\ UNCHANGED <<item, result, data, entry, items, tax_rate, calculated,
                   template_data, fs, selected_template, todo, attempts,
                   written, failures, templates>>

\* Lines 143-182.
AssembleTemplateData ==
    /\ pc = "loaded"
    /\ DictGet(data.tax, IntV(10)).k = "int"
    /\ tax_rate' = TrueDiv(DictGet(data.tax, IntV(10)).n, 100)
    /\ \E call \in {calculate_totals(items, tax_rate')} :
          /\ calculated' = call.ret
          /\ items' = [i \in 1..Len(call.items) |-> AddTotalStr(call.items[i])]
    /\ template_data' = TemplateData(data, items', calculated')
    /\ pc' = "assembled"
    /\ UNCHANGED <<item, result, data, entry, fs, selected_template, todo,
                   attempts, written, failures, templates>>

NextPdf == TaxRaises \/ AssembleTemplateData

SpecPdf == InitPdf /\ [][NextPdf]_vars

(***************************************************************************)
(* SpecMain: select_template and main over a template/ and a data/         *)
(* directory, with generate_pdf from the record's path to the written      *)
(* PDF (lines 111-135 and 184-192).  A name is the stem of a file.         *)
(***************************************************************************)
\* Line 120: the default template.
CleanGradient ==
    <<"c", "l", "e", "a", "n", "_", "g", "r", "a", "d", "i", "e", "n", "t">>

\* What select_template returns for "every template".
All == <<"a", "l", "l">>

\* Line 276: the two document titles, one letter standing for each Hangul
\* syllable (gyeon jeok seo; geo rae myeong se seo), the blanks as they are.
doc_types ==
    <<<<"G", " ", "J", " ", "S">>,
      <<"G", " ", "R", " ", "M", " ", "S", " ", "S">>>>

TemplateNames == {<<"c">>, <<"b", "_", "c">>, CleanGradient}

RecordNames == {<<"a">>, <<"a", "_", "b">>}

\* The characters of the names in the order of their code points.
NameChars == <<"_", "a", "b", "c", "d", "e", "g", "i", "l", "n", "r", "t">>

Ord(c) == CHOOSE i \in 1..Len(NameChars) : NameChars[i] = c

\* s < t as Python compares str.
StrLess(s, t) ==
    \E k \in 1..(Len(s) + 1) :
        /\ k <= Len(t)
        /\ \A i \in 1..(k - 1) : s[i] = t[i]
        /\ k > Len(s) \/ Ord(s[k]) < Ord(t[k])

RECURSIVE SortedSeq(_)
\* sorted(S).
SortedSeq(S) ==
    IF S = {} THEN <<>>
    ELSE LET least == CHOOSE x \in S : \A y \in S \ {x} : StrLess(x, y)
         IN  <<least>> \o SortedSeq(S \ {least})

\* Every order in which glob may list the files of S.
RECURSIVE Orders(_)
Orders(S) ==
    IF S = {} THEN {<<>>}
    ELSE UNION {{<<x>> \o o : o \in Orders(S \ {x})} : x \in S}

\* get_available_templates(): the sorted stems of template/*.html.
get_available_templates(f) == SortedSeq(f.template_dir)

\* Lines 126-130: the default output path.
OutputPath(json_filename, template_name, doc_title) ==
    <<"o", "u", "t", "p", "u", "t", "/">> \o json_filename \o <<"_">>
        \o template_name \o <<"_">> \o Replace(doc_title, " ")
        \o <<".", "p", "d", "f">>

\* The file systems a run may find: the templates, those of them jinja2
\* cannot compile, whether data/ exists, its records, those json.load rejects
\* and those whose tax is text, which line 143 rejects.
FileSystems ==
    {[template_dir |-> t, bad |-> b, data_dir |-> d, json |-> j,
      broken |-> k, malformed |-> m] :
        t \in SUBSET TemplateNames, b \in SUBSET TemplateNames, d \in BOOLEAN,
        j \in SUBSET RecordNames, k \in SUBSET RecordNames,
        m \in SUBSET RecordNames}

\* What the user may type at the prompt of line 229.
ChoicePool ==
    {<<>>, <<" ">>, <<"0">>, <<"1">>, <<"2">>, <<" ", "3">>, <<"4">>, <<"x">>,
     <<"-", "1">>}

\* generate_pdf(json_file, template_override=..., doc_title=...) with the
\* cache `cache`: whether it returned, the path it wrote, and the cache after.
generate_pdf(call, f, cache) ==
    LET template_name == IF Truthy(call.template_override)
                         THEN call.template_override.s ELSE CleanGradient
        output_path == OutputPath(call.json_file, template_name, call.doc_title)
    IN  IF call.json_file \in f.broken
        THEN [ok |-> FALSE, path |-> <<>>, templates |-> cache]
        ELSE IF template_name \notin cache
                /\ (template_name \notin f.template_dir \/ template_name \in f.bad)
        THEN [ok |-> FALSE, path |-> <<>>, templates |-> cache]
        ELSE IF call.json_file \in f.malformed
        THEN [ok |-> FALSE, path |-> <<>>,
              templates |-> cache \cup {template_name}]
        ELSE [ok |-> TRUE, path |-> output_path,
              templates |-> cache \cup {template_name}]

\* Lines 283-291 with a try around the loops instead of inside them.
NextIterationAbort(iterations, ok) == IF ok THEN Tail(iterations) ELSE <<>>

\* Lines 283-291 and 296-303: the except clause is inside the loop body, the
\* next iteration follows whether the call returned or raised.
NextIteration(iterations, ok) == Tail(iterations)

\* Lines 283-287: one iteration per record, template and title, in this order.
AllLoops(json_files, available_templates) ==
    LET T == Len(available_templates)
        D == Len(doc_types)
    IN  [k \in 1..(Len(json_files) * T * D) |->
            [json_file |-> json_files[((k - 1) \div (T * D)) + 1],
             template_override |->
                 StrV(available_templates[(((k - 1) \div D) % T) + 1]),
             doc_title |-> doc_types[((k - 1) % D) + 1]]]

\* Lines 296-299: one iteration per record and title.
OneLoops(json_files, selected) ==
    LET D == Len(doc_types)
    IN  [k \in 1..(Len(json_files) * D) |->
            [json_file |-> json_files[((k - 1) \div D) + 1],
             template_override |-> selected,
             doc_title |-> doc_types[((k - 1) % D) + 1]]]

InitMain ==
    /\ pc = "start"
    /\ fs \in {f \in FileSystems :
                  /\ f.bad \subseteq f.template_dir
                  /\ f.broken \subseteq f.json
                  /\ f.malformed \subseteq f.json \ f.broken
                  /\ ~f.data_dir => f.json = {}}
    /\ selected_template = Absent
    /\ todo = <<>> /\ attempts = <<>> /\ written = <<>> /\ failures = <<>>
    /\ templates = {}
    /\ item = Unused /\ result = Unused /\ data = Unused /\ entry = Unused
    /\ items = Unused /\ tax_rate = Unused /\ calculated = Unused
    /\ template_data = Unused

\* Lines 209-213: select_template with no template to offer.
SelectNone ==
    /\ pc = "start"
    /\ get_available_templates(fs) = <<>>
    /\ selected_template' = Null
    /\ pc' = "selected"
    /\ UNCHANGED <<item, result, data, entry, items, tax_rate, calculated,
                   template_data, fs, todo, attempts, written, failures,
                   templates>>

\* Lines 215-225: the menu is shown.
ShowMenu ==
    /\ pc = "start"
    /\ get_available_templates(fs) /= <<>>
    /\ pc' = "prompt"
    /\ UNCHANGED <<item, result, data, entry, items, tax_rate, calculated,
                   template_data, fs, selected_template, todo, attempts,
                   written, failures, templates>>

\* Lines 227-245: one answer at the prompt; the loop prompts again for a
\* text that is no number or a number out of range.
Prompt ==
    /\ pc = "prompt"
    /\ \E choice \in ChoicePool :
          LET choice_num == PyInt(choice)
              available == get_available_templates(fs)
          IN  IF RStrip(LStrip(choice)) = <<>> \/ (choice_num.ok /\ choice_num.v = 0)
              THEN selected_template' = StrV(All) /\ pc' = "selected"
              ELSE IF choice_num.ok /\ 1 <= choice_num.v
                      /\ choice_num.v <= Len(available)
              THEN /\ selected_template' = StrV(available[choice_num.v])
                   /\ pc' = "selected"
              ELSE UNCHANGED <<selected_template, pc>>
    /\ UNCHANGED <<item, result, data, entry, items, tax_rate, calculated,
                   template_data, fs, todo, attempts, written, failures,
                   templates>>

\* Lines 246-248: the user interrupts the prompt.
PromptInterrupt ==
    /\ pc = "prompt"
    /\ selected_template' = Null
    /\ pc' = "selected"
    /\ UNCHANGED <<item, result, data, entry, items, tax_rate, calculated,
                   template_data, fs, todo, attempts, written, failures,
                   templates>>

\* Lines 263-273: main returns when data/ is missing or holds no record.
NoData ==
    /\ pc = "selected"
    /\ ~fs.data_dir \/ fs.json = {}
    /\ pc' = "returned"
    /\ UNCHANGED <<item, result, data, entry, items, tax_rate, calculated,
                   template_data, fs, selected_template, todo, attempts,
                   written, failures, templates>>

\* Lines 269-299: the records are listed and the loops entered.
EnterLoops ==
    /\ pc = "selected"
    /\ fs.data_dir /\ fs.json /= {}
    /\ \E json_files \in Orders(fs.json) :
          todo' = IF selected_template = StrV(All)
                  THEN AllLoops(json_files, get_available_templates(fs))
                  ELSE OneLoops(json_files, selected_template)
    /\ pc' = "loop"
    /\ UNCHANGED <<item, result, data, entry, items, tax_rate, calculated,
                   template_data, fs, selected_template, attempts, written,
                   failures, templates>>

\* Lines 286-291 and 298-303: one iteration, the call and its except clause.
Attempt ==
    /\ pc = "loop"
    /\ todo /= <<>>
    /\ \E run \in {generate_pdf(Head(todo), fs, templates)} :
          /\ attempts' = Append(attempts, Head(todo))
          /\ templates' = run.templates
          /\ written' = IF run.ok
                        THEN Append(written, [path |-> run.path, by |-> Head(todo)])
                        ELSE written
          /\ failures' = IF run.ok THEN failures ELSE Append(failures, Head(todo))
          /\ todo' = NextIteration(todo, run.ok)
    /\ UNCHANGED <<pc, item, result, data, entry, items, tax_rate, calculated,
                   template_data, fs, selected_template>>

\* Line 305: the loops are over and the summary is printed.
Summary ==
    /\ pc = "loop"
    /\ todo = <<>>
    /\ pc' = "done"
    /\ UNCHANGED <<item, result, data, entry, items, tax_rate, calculated,
                   template_data, fs, selected_template, todo, attempts,
                   written, failures, templates>>

NextMain ==
    \/ SelectNone \/ ShowMenu \/ Prompt \/ PromptInterrupt
    \/ NoData \/ EnterLoops \/ Attempt \/ Summary

SpecMain == InitMain /\ [][NextMain]_vars

\* main is one thread that runs its loops to the end: an iteration that can
\* run does run, and so does the summary after the last one.
FairSpecMain == SpecMain /\ WF_vars(Attempt) /\ WF_vars(Summary)

(***************************************************************************)
(* What the claims say of amounts, stated without the code's parser.       *)
(***************************************************************************)
\* Text of decimal digits with an optional leading '-'.
PlainDecimal(t) ==
    LET b == IF t /= <<>> /\ Head(t) = "-" THEN Tail(t) ELSE t
    IN  b /= <<>> /\ \A i \in 1..Len(b) : b[i] \in DigitChars

\* Text in the thousands-separator convention: an optional '-', no leading
\* zero, and a ',' exactly before every group of three digits from the right.
Separated(t) ==
    LET b == IF t /= <<>> /\ Head(t) = "-" THEN Tail(t) ELSE t
    IN  /\ b /= <<>>
        /\ \A i \in 1..Len(b) :
              IF (Len(b) - i + 1) % 4 = 0 THEN b[i] = "," ELSE b[i] \in DigitChars
        /\ b[1] /= "0" \/ b = Zero
        /\ ~(b = Zero /\ t /= Zero)

\* The integer a plain or separated text denotes.
Denoted(t) ==
    LET b == IF Head(t) = "-" THEN Tail(t) ELSE t
        d == SelectSeq(b, LAMBDA c : c /= ",")
        RECURSIVE Val(_)
        Val(k) == IF k = 0 THEN 0 ELSE 10 * Val(k - 1) + DigitVal(d[k])
    IN  IF Head(t) = "-" THEN -Val(Len(d)) ELSE Val(Len(d))

\* A value that denotes an integer without separators: an int or plain text.
IsPlainInt(v) == v.k = "int" \/ (v.k = "str" /\ PlainDecimal(v.s))

\* A value that denotes an integer, separators allowed in text.
IsAmount(v) == IsPlainInt(v) \/ (v.k = "str" /\ Separated(v.s))

AmountOf(v) == IF v.k = "int" THEN v.n ELSE Denoted(v.s)

\* A missing quantity counts as 0.
QuantityOf(v) == IF v.k = "absent" THEN 0 ELSE AmountOf(v)

\* t is the thousands-separated rendering of n.
Renders(t, n) == Separated(t) /\ Denoted(t) = n

TaxPercent == DictGet(data.tax, IntV(10)).n

RECURSIVE SumSeq(_)
\* The sum of a sequence of integers.
SumSeq(q) == IF q = <<>> THEN 0 ELSE Head(q) + SumSeq(Tail(q))

\* An item's total where it parsed, else 0.
ParsedTotal(it) == IF ParseTotal(it).ok THEN ParseTotal(it).v ELSE 0

\* floor(amount * taxRate) of an item's parsed total.
FloorTax(it) == (ParsedTotal(it) * TaxPercent) \div 100

\* The sum of the totals that parsed.
SupplyOf(its) == SumSeq([i \in 1..Len(its) |-> ParsedTotal(its[i])])

\* C2 as claimed: tax_amount renders floor(supply_price * taxRate), with
\* supply_price the sum of the totals that parsed; total_tax_amount renders the
\* sum over the items of floor(itemTotal * taxRate), and each item whose total
\* parsed carries that per-item value as its tax_amount.
C2_Original ==
    pc = "returned" =>
        /\ Renders(calculated.supply_price, SupplyOf(items))
        /\ Renders(calculated.tax_amount,
                   (SupplyOf(items) * TaxPercent) \div 100)
        /\ Renders(calculated.total_tax_amount,
                   SumSeq([i \in 1..Len(items) |-> FloorTax(items[i])]))
        /\ \A i \in 1..Len(items) :
              ParseTotal(items[i]).ok =>
                  /\ items[i].tax_amount.k = "str"
                  /\ Renders(items[i].tax_amount.s, FloorTax(items[i]))

\* The total is absent or empty on entry.
AbsentOrEmpty(v) == v.k = "absent" \/ v = StrV(<<>>)

\* C3 as claimed: an item whose total was absent or empty on entry holds what
\* calculate_item_total returns for it; an item whose total was present and
\* not empty holds exactly the value supplied.
C3_Original ==
    pc = "returned" =>
        \A i \in 1..Len(entry) :
            IF AbsentOrEmpty(entry[i].total)
            THEN items[i].total = StrV(calculate_item_total(entry[i]))
            ELSE items[i].total = entry[i].total

\* A value that is present and an integer amount: an int, or text that is
\* plain or separated digits.
WellFormed(v) == v.k = "int" \/ (v.k = "str" /\ (PlainDecimal(v.s) \/ Separated(v.s)))

\* C4 as claimed: every item ends with a well-formed total and tax_amount,
\* whatever could not be parsed.
C4_Original ==
    pc = "returned" =>
        \A i \in 1..Len(items) :
            WellFormed(items[i].total) /\ WellFormed(items[i].tax_amount)

\* C4 as amended: every item ends with a total and a tax_amount; the
\* tax_amount is separated text; the total is separated text when it was
\* absent or falsy on entry, "0" with tax_amount "0" when the quantity or the
\* price did not parse; a supplied total that does not parse stays as it was
\* and its item's tax_amount is "0".
C4_TotalsPresent ==
    pc = "returned" =>
        \A i \in 1..Len(items) :
            /\ items[i].total.k /= "absent"
            /\ items[i].tax_amount.k = "str" /\ Separated(items[i].tax_amount.s)
            /\ (entry[i].total.k = "absent" \/ ~Truthy(entry[i].total)) =>
                  /\ items[i].total.k = "str" /\ Separated(items[i].total.s)
                  /\ (\/ ~ParseQuantity(entry[i]).ok
                      \/ ~PyInt(Replace(PyStr(DictGet(entry[i].price, StrV(Zero))),
                                        ",")).ok)
                        => items[i].total = StrV(Zero)
                           /\ items[i].tax_amount = StrV(Zero)
            /\ (Truthy(entry[i].total) /\ ~ParseTotal(entry[i]).ok) =>
                  /\ items[i].total = entry[i].total
                  /\ items[i].tax_amount = StrV(Zero)

\* C4's cases: a supplied total that does not parse, next to an item whose
\* price does not parse and whose total was computed.
C4_Witness ==
    /\ pc = "returned"
    /\ \E i, j \in 1..Len(items) :
          /\ entry[i].total = StrV(<<"a">>)
          /\ items[i].tax_amount = StrV(Zero)
          /\ entry[j].total.k = "absent"
          /\ entry[j].price = StrV(<<"o", "o", "p", "s">>)
          /\ items[j].total = StrV(Zero)

\* The quantity of an item where it parsed, else nothing.
ParsedQuantity(it) == IF ParseQuantity(it).ok THEN ParseQuantity(it).v ELSE 0

\* C5: total_quantity is the sum of the quantities that parse (a missing one
\* is 0); no quantity field is changed; and every item, also after one whose
\* quantity does not parse, has been given its total and its tax_amount.
C5_TotalQuantity ==
    pc = "returned" =>
        /\ calculated.total_quantity =
              SumSeq([i \in 1..Len(entry) |-> ParsedQuantity(entry[i])])
        /\ Len(items) = Len(entry)
        /\ \A i \in 1..Len(entry) :
              /\ items[i].quantity = entry[i].quantity
              /\ items[i].total.k /= "absent"
              /\ items[i].tax_amount.k /= "absent"

\* C5's case: the first quantity does not parse, the second is 2, and the
\* second item was still aggregated.
C5_Witness ==
    /\ pc = "returned"
    /\ Len(entry) >= 2
    /\ entry[1].quantity = StrV(<<"a">>)
    /\ entry[2].quantity = IntV(2)
    /\ calculated.total_quantity = 2
    /\ items[2].tax_amount.k = "str"

(***************************************************************************)
(* C6, C7: the value set of generate_pdf                                   *)
(***************************************************************************)
\* The three amounts a record may override, and the alias of each.
Overridable == {"supply_price", "tax_amount", "total_amount"}

AliasOf(f) ==
    CASE f = "supply_price" -> "subtotal_str"
      [] f = "tax_amount" -> "tax_amount_str"
      [] f = "total_amount" -> "grand_total_str"

\* C6: each of supply_price, tax_amount and total_amount, and its alias, is
\* the record's field of that name when the record has it and else what
\* calculate_totals computed from the record's items, field by field.
C6_Overrides ==
    pc = "assembled" =>
        \A f \in Overridable :
            LET expected == IF data[f].k /= "absent" THEN data[f]
                            ELSE StrV(calculate_totals(entry, tax_rate).ret[f])
            IN  /\ template_data[f] = expected
                /\ template_data[AliasOf(f)] = expected

\* C6's case: total_amount overridden with a value the computation does not
\* give, supply_price left to the computation.
C6_Witness ==
    /\ pc = "assembled"
    /\ data.total_amount = StrV(<<"9", ",", "9", "9", "9">>)
    /\ calculated.total_amount /= <<"9", ",", "9", "9", "9">>
    /\ template_data.grand_total_str = StrV(<<"9", ",", "9", "9", "9">>)
    /\ data.supply_price.k = "absent"
    /\ data.tax_amount = IntV(2000)
    /\ template_data.tax_amount = IntV(2000)
    /\ template_data.supply_price = StrV(calculated.supply_price)
    /\ template_data.subtotal_str = StrV(<<"2", ",", "0", "0", "0">>)

\* A value that is text in the thousands-separator convention.
IsSeparated(v) == v.k = "str" /\ Separated(v.s)

\* C7 as claimed: every amount of the value set is separated text, overrides
\* and supplied item fields included.
C7_Original ==
    pc = "assembled" =>
        /\ \A f \in Overridable :
              IsSeparated(template_data[f]) /\ IsSeparated(template_data[AliasOf(f)])
        /\ IsSeparated(template_data.total_tax_amount)
        /\ \A i \in 1..Len(template_data.items) :
              LET it == template_data.items[i]
              IN  /\ IsSeparated(it.price) /\ IsSeparated(it.total)
                  /\ IsSeparated(it.total_str) /\ IsSeparated(it.tax_amount)

\* C7 as amended: the amounts the method computes are separated text
\* (total_tax_amount, each item's tax_amount, an amount the record does not
\* override, an item's total that was absent or falsy on entry), and every
\* other amount is the supplied value as it was supplied.
C7_ComputedFormatted ==
    pc = "assembled" =>
        /\ \A f \in Overridable :
              /\ template_data[AliasOf(f)] = template_data[f]
              /\ IF data[f].k = "absent" THEN IsSeparated(template_data[f])
                 ELSE template_data[f] = data[f]
        /\ IsSeparated(template_data.total_tax_amount)
        /\ Len(template_data.items) = Len(entry)
        /\ \A i \in 1..Len(entry) :
              LET it == template_data.items[i]
              IN  /\ IsSeparated(it.tax_amount)
                  /\ it.price = entry[i].price
                  /\ IF ~Truthy(entry[i].total) THEN IsSeparated(it.total)
                     ELSE it.total = entry[i].total
                  /\ IF entry[i].total_str.k = "absent"
                     THEN it.total_str = it.total
                     ELSE it.total_str = entry[i].total_str

\* C7's case: a computed supply_price next to a raw int override and an item
\* supplied with raw ints.
C7_Witness ==
    /\ pc = "assembled"
    /\ data.supply_price.k = "absent"
    /\ template_data.subtotal_str = StrV(<<"4", ",", "0", "0", "0">>)
    /\ data.total_amount = IntV(2000)
    /\ template_data.grand_total_str = IntV(2000)
    /\ \E i \in 1..Len(entry) :
          /\ entry[i].total = IntV(2000)
          /\ template_data.items[i].total_str = IntV(2000)
          /\ template_data.items[i].tax_amount = StrV(<<"5", "8", "0">>)

(***************************************************************************)
(* C8 - C10: main                                                          *)
(***************************************************************************)
\* The triples a run with a selection stands for: every record, with every
\* template (or the one selected), under both titles.
Triples ==
    {[json_file |-> j, template_override |-> StrV(t), doc_title |-> d] :
        j \in fs.json,
        t \in IF selected_template = StrV(All) THEN fs.template_dir
              ELSE {selected_template.s},
        d \in {doc_types[i] : i \in 1..Len(doc_types)}}

\* Every triple was attempted exactly once and nothing else was.
AttemptedOnce ==
    /\ \A tr \in Triples :
          Cardinality({i \in 1..Len(attempts) : attempts[i] = tr}) = 1
    /\ Len(attempts) = Cardinality(Triples)

\* C8: once main has entered its loops with a selection, it reaches the
\* summary, and by then generate_pdf was attempted exactly once for every
\* triple, whichever attempts failed.
C8_EveryTriple ==
    [](pc = "loop" /\ selected_template.k = "str"
          => <>(pc = "done" /\ AttemptedOnce))

\* C8's case: a run over two records and two templates whose first attempt
\* failed, that wrote PDFs afterwards and reached the summary after all
\* eight attempts.
C8_Witness ==
    /\ pc = "done"
    /\ selected_template = StrV(All)
    /\ Len(attempts) = 8
    /\ failures /= <<>>
    /\ failures[1] = attempts[1]
    /\ written /= <<>>
    /\ AttemptedOnce

\* C9 as claimed: when select_template returned None, generate_pdf is never
\* called and no PDF is written.
C9_Original ==
    selected_template = Null => attempts = <<>> /\ written = <<>>

\* C10 as claimed: no two different calls of a run write the same path.
C10_Original ==
    \A i, j \in 1..Len(written) :
        written[i].by /= written[j].by => written[i].path /= written[j].path

====
